---- MODULE Spec2Model ----
(***************************************************************************)
(* Minimum-weight perfect matching decoder for the toric and the planar    *)
(* surface code (qsurface/decoders/mwpm/sim.py): distance graph, matching  *)
(* backends, correction walks, planar failure estimate and the decode      *)
(* pass that drives them.                                                  *)
(*                                                                         *)
(* Coordinates: all sites of one syndrome type lie on one sublattice, so   *)
(* their coordinate differences are whole numbers and int() of them is     *)
(* exact.  A site is <<x, y, z>>.  A direction key (0.5, 0) of the source  *)
(* is written in half units, <<1, 0>>; a data qubit (lattice edge) is      *)
(* named by its doubled coordinates.                                       *)
(***************************************************************************)
EXTENDS Integers, Sequences, FiniteSets, TLC

VARIABLES
    topology,              \* "toric" | "planar": the decoder class in use
    use_blossomv,          \* kwarg of decode / match_syndromes
    libPresent,            \* PMlib.so can be loaded
    max_cardinality,       \* self.config["max_cardinality"]
    layers,                \* number of layers of code.data_qubits
    plaqs, stars,          \* result of get_syndrome
    pc, cur,               \* position in decode; syndrome type being handled
    edges, num_nodes,      \* arguments handed to the matching backend
    matching,              \* value returned by the backend (self.matching)
    boundary_info,         \* Planar: per node index "", "L" or "R"
    ancillas_matchingind,  \* Planar: per node index its site
    flipped,               \* lattice edges whose correction state is toggled
    weight,                \* value returned by correct_matching
    phi,                   \* value returned by calc_phi
    phiGraph,              \* what calc_phi built: hubs, shortcut edges
    err,                   \* exception that ended the pass, "" if none
    solver_calls,          \* invocations of a matching solver
    trace,                 \* steps of the pass executed so far
    walk                   \* record of one direct use of the correction walker

vars == <<topology, use_blossomv, libPresent, max_cardinality, layers, plaqs,
          stars, pc, cur, edges, num_nodes, matching, boundary_info,
          ancillas_matchingind, flipped, weight, phi, phiGraph, err,
          solver_calls, trace, walk>>

\* ----------------------------------------------------------------- bounds
\* code.size = (SizeX, SizeY)
SizeX == 3
SizeY == 2
\* most syndromes of one type in a pass
MaxSyn == 2
\* most layers of data qubits the planar code holds
MaxLayers == 2
\* longest walk requested directly from the walker
MaxLen == 3

size == <<SizeX, SizeY>>

Abs(n) == IF n < 0 THEN -n ELSE n

Min2(a, b) == IF a < b THEN a ELSE b

loc(q) == <<q[1], q[2]>>

zOf(q) == q[3]

\* ---------------------------------------------------------------- lattice
\* The lattice collaborator (qsurface.codes): sites and correct_edge.
ToricLocs == (0 .. SizeX - 1) \X (0 .. SizeY - 1)

PlanarAncillaLocs == (1 .. SizeX - 1) \X (0 .. SizeY - 1)

PlanarPseudoLocs == {0, SizeX} \X (0 .. SizeY - 1)

PlanarLocs == PlanarAncillaLocs \cup PlanarPseudoLocs

Locs(top) == IF top = "toric" THEN ToricLocs ELSE PlanarLocs

Keys == {<<1, 0>>, <<-1, 0>>, <<0, 1>>, <<0, -1>>}

NegKey(key) == <<-key[1], -key[2]>>

\* qubit.parity_qubits has an entry for key
HasEdge(top, l, key) ==
    IF top = "toric" THEN TRUE
    ELSE IF key[2] = 0 THEN (l[1] + key[1]) \in 0 .. SizeX
    ELSE l[1] \in 1 .. SizeX - 1 /\ (l[2] + key[2]) \in 0 .. SizeY - 1

NextSite(top, l, key) ==
    IF top = "toric"
    THEN <<(l[1] + key[1]) % SizeX, (l[2] + key[2]) % SizeY>>
    ELSE <<l[1] + key[1], l[2] + key[2]>>

EdgeId(top, l, key) ==
    IF top = "toric"
    THEN <<(2 * l[1] + key[1]) % (2 * SizeX), (2 * l[2] + key[2]) % (2 * SizeY)>>
    ELSE <<2 * l[1] + key[1], 2 * l[2] + key[2]>>

Toggle(f, e) == IF e \in f THEN f \ {e} ELSE f \cup {e}

\* correct_edge(qubit, key): toggles the edge, returns the site reached
correct_edge(top, f, l, key) ==
    [qubit |-> NextSite(top, l, key), flipped |-> Toggle(f, EdgeId(top, l, key))]

\* ------------------------------------------------------- correction walker
\* the walk with the site never advanced: each step corrects from the start
RECURSIVE _walk_and_correct_no_advance(_, _, _, _, _)
_walk_and_correct_no_advance(top, f, qubit, length, key) ==
    IF length <= 0 \/ ~HasEdge(top, qubit, key)
    THEN [qubit |-> qubit, flipped |-> f, taken |-> 0]
    ELSE LET c == correct_edge(top, f, qubit, key)
             r == _walk_and_correct_no_advance(top, c.flipped, qubit, length - 1, key)
         IN [r EXCEPT !.taken = @ + 1]

RECURSIVE _walk_and_correct(_, _, _, _, _)
_walk_and_correct(top, f, qubit, length, key) ==
    IF length <= 0 \/ ~HasEdge(top, qubit, key)
    THEN [qubit |-> qubit, flipped |-> f, taken |-> 0]
    ELSE LET c == correct_edge(top, f, qubit, key)
             r == _walk_and_correct(top, c.flipped, c.qubit, length - 1, key)
         IN [r EXCEPT !.taken = @ + 1]

\* the comparison made with <=, so that a tie keeps the first distance
Toric_walk_direction_ties_first(q0, q1) ==
    LET dx0 == (q0[1] - q1[1]) % size[1]
        dx1 == (q1[1] - q0[1]) % size[1]
        dy0 == (q0[2] - q1[2]) % size[2]
        dy1 == (q1[2] - q0[2]) % size[2]
    IN [dx |-> IF dx0 <= dx1 THEN dx0 ELSE dx1,
        xd |-> IF dx0 <= dx1 THEN <<1, 0>> ELSE <<-1, 0>>,
        dy |-> IF dy0 <= dy1 THEN dy0 ELSE dy1,
        yd |-> IF dy0 <= dy1 THEN <<0, -1>> ELSE <<0, 1>>]

Toric_walk_direction(q0, q1) ==
    LET dx0 == (q0[1] - q1[1]) % size[1]
        dx1 == (q1[1] - q0[1]) % size[1]
        dy0 == (q0[2] - q1[2]) % size[2]
        dy1 == (q1[2] - q0[2]) % size[2]
    IN [dx |-> IF dx0 < dx1 THEN dx0 ELSE dx1,
        xd |-> IF dx0 < dx1 THEN <<1, 0>> ELSE <<-1, 0>>,
        dy |-> IF dy0 < dy1 THEN dy0 ELSE dy1,
        yd |-> IF dy0 < dy1 THEN <<0, -1>> ELSE <<0, 1>>]

Planar_walk_direction(q0, q1) ==
    LET dx == q0[1] - q1[1]
        dy == q0[2] - q1[2]
    IN [dx |-> Abs(dx),
        xd |-> IF dx > 0 THEN <<1, 0>> ELSE <<-1, 0>>,
        dy |-> Abs(dy),
        yd |-> IF dy > 0 THEN <<0, -1>> ELSE <<0, 1>>]

_walk_direction(top, q0, q1) ==
    IF top = "toric" THEN Toric_walk_direction(q0, q1) ELSE Planar_walk_direction(q0, q1)

\* both walks started from the first site
_correct_matched_qubits_same_start(top, f, aq0, aq1) ==
    LET d == _walk_direction(top, aq0, aq1)
        w0 == _walk_and_correct(top, f, loc(aq0), d.dy, d.yd)
        w1 == _walk_and_correct(top, w0.flipped, loc(aq0), d.dx, d.xd)
    IN [flipped |-> w1.flipped,
        weight |-> d.dy + d.dx + Abs(zOf(aq0) - zOf(aq1)),
        ytaken |-> w0.taken, xtaken |-> w1.taken,
        yend |-> w0.qubit, xend |-> w1.qubit]

\* returns the new lattice state, the weight, and the steps each walk took
_correct_matched_qubits(top, f, aq0, aq1) ==
    LET d == _walk_direction(top, aq0, aq1)
        w0 == _walk_and_correct(top, f, loc(aq0), d.dy, d.yd)
        w1 == _walk_and_correct(top, w0.flipped, loc(aq1), d.dx, d.xd)
    IN [flipped |-> w1.flipped,
        weight |-> d.dy + d.dx + Abs(zOf(aq0) - zOf(aq1)),
        ytaken |-> w0.taken, xtaken |-> w1.taken,
        yend |-> w0.qubit, xend |-> w1.qubit]

\* ---------------------------------------------------- distance-graph builder
\* index pairs <<i0, i1>>, i0 < i1 <= hi, in the order the nested loops visit them
RECURSIVE PairSeqFrom(_, _, _)
PairSeqFrom(i0, i1, hi) ==
    IF i0 >= hi THEN <<>>
    ELSE IF i1 > hi THEN PairSeqFrom(i0 + 1, i0 + 2, hi)
    ELSE <<<<i0, i1>>>> \o PairSeqFrom(i0, i1 + 1, hi)

ToricWeight(q0, q1) ==
    LET wx == (q0[1] - q1[1]) % size[1]
        wy == (q0[2] - q1[2]) % size[2]
        wz == Abs(zOf(q0) - zOf(q1))
    IN Min2(wy, size[2] - wy) + Min2(wx, size[1] - wx) + wz

\* qubits is 1-based here; node indices stay 0-based as in the source
Toric_get_qubit_distances(qubits) ==
    LET P == PairSeqFrom(0, 1, Len(qubits) - 1)
    IN [k \in 1 .. Len(P) |->
           <<P[k][1], P[k][2], ToricWeight(qubits[P[k][1] + 1], qubits[P[k][2] + 1])>>]

get_weight(a0, a1) ==
    Abs(a0[1] - a1[1]) + Abs(a0[2] - a1[2]) + Abs(zOf(a0) - zOf(a1))

\* the boundary clique with its first node left out
BoundaryEdges_from_next(n) ==
    LET B == PairSeqFrom(n + 1, n + 2, 2 * n - 1)
    IN [k \in 1 .. Len(B) |-> <<B[k][1], B[k][2], 0>>]

\* edges of weight 0 between all pseudo-qubits, nodes n .. 2n-1
BoundaryEdges(n) ==
    LET B == PairSeqFrom(n, n + 1, 2 * n - 1)
    IN [k \in 1 .. Len(B) |-> <<B[k][1], B[k][2], 0>>]

\* qubits: sequence of <<ancilla, pseudo>>; state_type of the ancillas
Planar_get_qubit_distances(qubits, state_type) ==
    LET n == Len(qubits)
        P == PairSeqFrom(0, 1, n - 1)
        real == [k \in 1 .. Len(P) |->
                    <<P[k][1], P[k][2],
                      get_weight(qubits[P[k][1] + 1][1], qubits[P[k][2] + 1][1])>>]
        own == [i \in 1 .. n |->
                   LET ancilla == qubits[i][1]
                       pseudo == qubits[i][2]
                       w == IF state_type = "x" THEN pseudo[1] - ancilla[1]
                            ELSE pseudo[2] - ancilla[2]
                   IN <<i - 1, n + i - 1, Abs(w)>>]
    IN [edges |-> real \o own \o BoundaryEdges(n),
        boundary_info |-> [i \in 1 .. 2 * n |->
                              IF i <= n THEN ""
                              ELSE IF qubits[i - n][2][1] = 0 THEN "L" ELSE "R"],
        ancillas_matchingind |-> [i \in 1 .. 2 * n |->
                              IF i <= n THEN qubits[i][1] ELSE qubits[i - n][2]]]

\* --------------------------------------------------------- matching backends
EdgeSet(es) == {es[k] : k \in DOMAIN es}

NodesOf(es) == {e[1] : e \in EdgeSet(es)} \cup {e[2] : e \in EdgeSet(es)}

Touches(e, f) == {e[1], e[2]} \cap {f[1], f[2]} # {}

\* every set of pairwise disjoint edges of E
RECURSIVE AllMatchings(_)
AllMatchings(E) ==
    IF E = {} THEN {{}}
    ELSE LET e == CHOOSE x \in E : TRUE
         IN AllMatchings(E \ {e})
            \cup {M \cup {e} : M \in AllMatchings({f \in E : ~Touches(e, f)})}

RECURSIVE SumWeight(_)
SumWeight(M) ==
    IF M = {} THEN 0
    ELSE LET e == CHOOSE x \in M : TRUE IN e[3] + SumWeight(M \ {e})

MaxOf(S) == CHOOSE m \in S : \A v \in S : v <= m

MinOf(S) == CHOOSE m \in S : \A v \in S : m <= v

LargestOf(All) ==
    LET k == MaxOf({Cardinality(M) : M \in All})
    IN {M \in All : Cardinality(M) = k}

HeaviestOf(Cand) ==
    LET w == MaxOf({-SumWeight(M) : M \in Cand})
    IN {M \in Cand : -SumWeight(M) = w}

\* networkx max_weight_matching on the graph with weights negated
MaxWeightMatchings(es, maxcardinality) ==
    IF maxcardinality
    THEN HeaviestOf(LargestOf(AllMatchings(EdgeSet(es))))
    ELSE HeaviestOf(AllMatchings(EdgeSet(es)))

LightestOf(Perf) ==
    IF Perf = {} THEN {}
    ELSE LET w == MinOf({SumWeight(M) : M \in Perf})
         IN {M \in Perf : SumWeight(M) = w}

\* the library's answer: a minimum-weight perfect matching of nodes 0..n-1
PerfectMatchings(es, n) ==
    LightestOf({M \in AllMatchings(EdgeSet(es)) : 2 * Cardinality(M) = n})

\* a set of node pairs in either orientation (networkx returns tuples of a set)
Orientations(M) ==
    {{IF o[e] THEN <<e[1], e[2]>> ELSE <<e[2], e[1]>> : e \in M} : o \in [M -> BOOLEAN]}

\* [[i0, i1] for i0, i1 in enumerate(matching) if i0 > i1]
PartnerPairs(M) ==
    {IF e[1] > e[2] THEN <<e[1], e[2]>> ELSE <<e[2], e[1]>> : e \in M}

\* ------------------------------------------------------------ get_syndrome
\* The syndromes a pass starts from (lattice collaborator).  Sites are listed
\* in lattice order; a planar syndrome comes with the pseudo-qubit of its own
\* row on the nearer side.
ToricSite(i) == <<(i - 1) \div SizeY, (i - 1) % SizeY, 0>>

PlanarAncilla(i) == <<1 + (i - 1) \div SizeY, (i - 1) % SizeY, 0>>

FindPseudo(a) == <<IF 2 * a[1] < SizeX THEN 0 ELSE SizeX, a[2], a[3]>>

NumSites(top) == IF top = "toric" THEN SizeX * SizeY ELSE (SizeX - 1) * SizeY

Syndrome(top, i) ==
    IF top = "toric" THEN ToricSite(i)
    ELSE <<PlanarAncilla(i), FindPseudo(PlanarAncilla(i))>>

\* strictly increasing index sequences of length at most k over 1..n
IncSeqs(n, k) ==
    {s \in UNION {[1 .. m -> 1 .. n] : m \in 0 .. k} :
        \A i \in DOMAIN s : \A j \in DOMAIN s : i < j => s[i] < s[j]}

SyndromeLists(top) ==
    {[i \in DOMAIN s |-> Syndrome(top, s[i])] : s \in IncSeqs(NumSites(top), MaxSyn)}

\* star syndromes: the first k sites of the lattice order
StarLists(top) ==
    {[i \in 1 .. k |-> Syndrome(top, i)] : k \in 0 .. Min2(MaxSyn, NumSites(top))}

NoWalk == [phase |-> "none"]

NoGraph == [built |-> FALSE]

Init ==
    /\ topology \in {"toric", "planar"}
    /\ use_blossomv \in BOOLEAN
    /\ libPresent \in BOOLEAN
    /\ max_cardinality \in BOOLEAN
    \* a setting the chosen backend never reads is held at one value
    /\ use_blossomv => max_cardinality
    /\ ~use_blossomv => ~libPresent
    /\ layers = 1
    /\ plaqs \in SyndromeLists(topology)
    /\ stars \in StarLists(topology)
    /\ pc = "match_syndromes"
    /\ cur = "plaq"
    /\ edges = <<>>
    /\ num_nodes = 0
    /\ matching = {}
    /\ boundary_info = <<>>
    /\ ancillas_matchingind = <<>>
    /\ flipped = {}
    /\ weight = 0
    /\ phi = -1
    /\ phiGraph = NoGraph
    /\ err = ""
    /\ solver_calls = 0
    /\ trace = <<>>
    /\ walk = NoWalk

Syn == IF cur = "plaq" THEN plaqs ELSE stars

\* ----------------------------------------------------------- match_syndromes
Toric_match_syndromes ==
    /\ pc = "match_syndromes"
    /\ topology = "toric"
    /\ edges' = Toric_get_qubit_distances(Syn)
    /\ num_nodes' = Len(Syn)
    /\ pc' = "matching_graph"
    /\ trace' = Append(trace, <<"BuildGraph", cur>>)
    /\ UNCHANGED <<topology, use_blossomv, libPresent, max_cardinality, layers,
                   plaqs, stars, cur, matching, boundary_info,
                   ancillas_matchingind, flipped, weight, phi, phiGraph, err,
                   solver_calls, walk>>

Planar_match_syndromes ==
    /\ pc = "match_syndromes"
    /\ topology = "planar"
    /\ LET g == Planar_get_qubit_distances(Syn, IF cur = "plaq" THEN "x" ELSE "z")
       IN /\ edges' = g.edges
          /\ boundary_info' = g.boundary_info
          /\ ancillas_matchingind' = g.ancillas_matchingind
    /\ num_nodes' = Len(Syn)
    /\ pc' = "matching_graph"
    /\ trace' = Append(trace, <<"BuildGraph", cur>>)
    /\ UNCHANGED <<topology, use_blossomv, libPresent, max_cardinality, layers,
                   plaqs, stars, cur, matching, flipped, weight, phi, phiGraph,
                   err, solver_calls, walk>>

\* ------------------------------------------------------------- the backends
match_networkx ==
    /\ pc = "matching_graph"
    /\ ~use_blossomv
    /\ solver_calls' = solver_calls + 1
    /\ \E M \in MaxWeightMatchings(edges, max_cardinality) :
          matching' \in Orientations(M)
    /\ pc' = "correct_matching"
    /\ trace' = Append(trace, <<"Match", cur>>)
    /\ UNCHANGED <<topology, use_blossomv, libPresent, max_cardinality, layers,
                   plaqs, stars, cur, edges, num_nodes, boundary_info,
                   ancillas_matchingind, flipped, weight, phi, phiGraph, err,
                   walk>>

\* What PMlib.pyMatching may hand back.  With every node index below
\* num_nodes it is a minimum-weight perfect matching.  With an index at or
\* above num_nodes the library is used outside its contract: any partner
\* array over 0..num_nodes-1 may come back.
pyMatchingResults(es, n) ==
    IF \A v \in NodesOf(es) : v < n
    THEN {PartnerPairs(M) : M \in PerfectMatchings(es, n)}
    ELSE {{<<i0, m[i0]>> : i0 \in {i \in 0 .. n - 1 : m[i] < i}} :
             m \in [0 .. n - 1 -> 0 .. n - 1]}

\* which way match_blossomv goes: "empty" returns [] at once, "missing" raises
\* FileNotFoundError from the failed load, "call" reaches PMlib.pyMatching
blossomv_path_load_first(n, present) ==
    IF ~present THEN "missing" ELSE IF n = 0 THEN "empty" ELSE "call"

blossomv_path(n, present) ==
    IF n = 0 THEN "empty" ELSE IF ~present THEN "missing" ELSE "call"

match_blossomv ==
    /\ pc = "matching_graph"
    /\ use_blossomv
    /\ LET path == blossomv_path(num_nodes, libPresent)
       IN IF path = "empty"
          THEN /\ matching' = {}
               /\ pc' = "correct_matching"
               /\ trace' = Append(trace, <<"Match", cur>>)
               /\ UNCHANGED <<err, solver_calls>>
          ELSE IF path = "missing"
          THEN /\ err' = "FileNotFoundError"
               /\ pc' = "error"
               /\ trace' = Append(trace, <<"MatchFailed", cur>>)
               /\ UNCHANGED <<matching, solver_calls>>
          ELSE /\ solver_calls' = solver_calls + 1
               \* the foreign call returns a partner array, or fails
               /\ \/ /\ matching' \in pyMatchingResults(edges, num_nodes)
                     /\ pc' = "correct_matching"
                     /\ trace' = Append(trace, <<"Match", cur>>)
                     /\ UNCHANGED err
                  \/ /\ err' = "MatchingServiceError"
                     /\ pc' = "error"
                     /\ trace' = Append(trace, <<"MatchFailed", cur>>)
                     /\ UNCHANGED matching
    /\ UNCHANGED <<topology, use_blossomv, libPresent, max_cardinality, layers,
                   plaqs, stars, cur, edges, num_nodes, boundary_info,
                   ancillas_matchingind, flipped, weight, phi, phiGraph, walk>>

\* ---------------------------------------------------------- correct_matching
RECURSIVE Toric_correct(_, _, _)
Toric_correct(f, syndromes, M) ==
    IF M = {} THEN [flipped |-> f, weight |-> 0]
    ELSE LET p == CHOOSE x \in M : TRUE
             c == _correct_matched_qubits("toric", f, syndromes[p[1] + 1], syndromes[p[2] + 1])
             r == Toric_correct(c.flipped, syndromes, M \ {p})
         IN [flipped |-> r.flipped, weight |-> c.weight + r.weight]

RECURSIVE Planar_correct(_, _, _)
Planar_correct(f, syndromes, M) ==
    IF M = {} THEN [flipped |-> f, weight |-> 0]
    ELSE LET p == CHOOSE x \in M : TRUE
             n == Len(syndromes)
             i0 == p[1]
             i1 == p[2]
             aq0 == IF i0 < n THEN syndromes[i0 + 1][1] ELSE syndromes[i0 - n + 1][2]
             aq1 == IF i1 < n THEN syndromes[i1 + 1][1] ELSE syndromes[i1 - n + 1][2]
             c == IF i0 < n \/ i1 < n
                  THEN _correct_matched_qubits("planar", f, aq0, aq1)
                  ELSE [flipped |-> f, weight |-> 0]
             r == Planar_correct(c.flipped, syndromes, M \ {p})
         IN [flipped |-> r.flipped, weight |-> c.weight + r.weight]

Toric_correct_matching ==
    /\ pc = "correct_matching"
    /\ topology = "toric"
    /\ LET r == Toric_correct(flipped, Syn, matching)
       IN /\ flipped' = r.flipped
          /\ weight' = r.weight
    /\ trace' = Append(trace, <<"Correct", cur>>)
    /\ IF cur = "plaq"
       THEN cur' = "star" /\ pc' = "match_syndromes"
       ELSE cur' = cur /\ pc' = "done"
    /\ UNCHANGED <<topology, use_blossomv, libPresent, max_cardinality, layers,
                   plaqs, stars, edges, num_nodes, matching, boundary_info,
                   ancillas_matchingind, phi, phiGraph, err, solver_calls, walk>>

Planar_correct_matching ==
    /\ pc = "correct_matching"
    /\ topology = "planar"
    /\ LET r == Planar_correct(flipped, Syn, matching)
       IN /\ flipped' = r.flipped
          /\ weight' = r.weight
    /\ trace' = Append(trace, <<"Correct", cur>>)
    \* decode goes from the plaquette correction straight to calc_phi
    /\ cur' = cur
    /\ pc' = "calc_phi"
    /\ UNCHANGED <<topology, use_blossomv, libPresent, max_cardinality, layers,
                   plaqs, stars, edges, num_nodes, matching, boundary_info,
                   ancillas_matchingind, phi, phiGraph, err, solver_calls, walk>>

\* ------------------------------------------------------------------ calc_phi
\* nodes of the edges dq.edges['x'] of every data qubit of every layer
StructNodes(L) == {<<l[1], l[2], z>> : l \in PlanarLocs, z \in 0 .. L - 1}

\* the other nodes of the edges dq.edges['x'] that hold node u
LatticeNbrs(u) ==
    {<<u[1] + k[1], u[2] + k[2], u[3]>> : k \in {j \in Keys : HasEdge("planar", loc(u), j)}}

\* qubit_type == 'pA'
IsBoundary(v) == loc(v) \in PlanarPseudoLocs

BoundaryNodes(L) == {<<l[1], l[2], z>> : l \in PlanarPseudoLocs, z \in 0 .. L - 1}

\* the test as the comment above it words it: both endpoints real
PairQualifies_both_real(binfo, node0, node1) == binfo[node0 + 1] = "" /\ binfo[node1 + 1] = ""

\* the test that lets a matched pair add shortcut edges
PairQualifies(binfo, node0, node1) == binfo[node0 + 1] = "" \/ binfo[node1 + 1] = ""

\* the test that lets a shortcut join matched endpoint site u and node b
ShortcutNear(u, b, edge_weight) == 2 * get_weight(u, b) < edge_weight

ShortcutsOfPair(p, binfo, A, L) ==
    IF PairQualifies(binfo, p[1], p[2])
    THEN LET edge_weight == get_weight(A[p[1] + 1], A[p[2] + 1])
         IN UNION {{{A[a + 1], b} : b \in {c \in StructNodes(L) :
                                              ShortcutNear(A[a + 1], c, edge_weight)}} :
                      a \in {p[1], p[2]}}
    ELSE {}

SameSide(e1, e2) == (e1[1] = 0 /\ e2[1] = 0) \/ (e1[1] # 0 /\ e2[1] # 0)

\* the two asserts on same-side boundary nodes
HubAssertsHold(L) ==
    \A e1 \in BoundaryNodes(L) : \A e2 \in BoundaryNodes(L) :
        (e1 # e2 /\ SameSide(e1, e2)) =>
            /\ (e1[1] # 0 /\ e2[1] # 0) => (e1[1] = size[1] /\ e2[1] = size[1])
            /\ e1[1] = e2[1]

\* boundary nodes the loop assigns to s, and to t
OriginHubs(L) == {e \in BoundaryNodes(L) : e[1] = 0 /\ e[2] = 0}

OppositeHubs(L) == {e \in BoundaryNodes(L) : ~(e[1] = 0 /\ e[2] = 0) /\ e[2] = 0}

\* The loop keeps the last qualifying node it meets; a set is walked in no
\* fixed order, so any qualifying node may be the one kept.
HubChoices(Q) == Q

\* The graph G is kept implicit.  Its weight-0 edges are the shortcut edges
\* sc and the pairs of distinct same-side boundary nodes; every other lattice
\* edge weighs -ln(p/(1-p)), which is positive for p < 1/2 and is the unit of
\* length here.  An edge added twice keeps the weight added last, which is 0.
ZeroStep(S, sc, L) ==
    S \cup UNION {e \in sc : e \cap S # {}}
      \cup (IF \E b \in S : IsBoundary(b) /\ b[1] = 0
            THEN {b \in BoundaryNodes(L) : b[1] = 0} ELSE {})
      \cup (IF \E b \in S : IsBoundary(b) /\ b[1] # 0
            THEN {b \in BoundaryNodes(L) : b[1] # 0} ELSE {})

RECURSIVE Closure0(_, _, _)
Closure0(S, sc, L) ==
    LET T == ZeroStep(S, sc, L)
    IN IF T = S THEN S ELSE Closure0(T, sc, L)

\* single_source_dijkstra: length of a shortest path from S to t; -1: no path
RECURSIVE Dijkstra(_, _, _, _, _)
Dijkstra(S, t, sc, L, d) ==
    LET C == Closure0(S, sc, L)
        N == C \cup UNION {LatticeNbrs(u) : u \in C}
    IN IF t \in C THEN d
       ELSE IF N = C THEN -1
       ELSE Dijkstra(N, t, sc, L, d + 1)

calc_phi ==
    /\ pc = "calc_phi"
    /\ topology = "planar"
    /\ LET per == [p \in matching |->
                      ShortcutsOfPair(p, boundary_info, ancillas_matchingind, layers)]
           shortcuts == UNION {per[p] : p \in matching}
       IN IF ~HubAssertsHold(layers)
          THEN /\ err' = "AssertionError"
               /\ pc' = "error"
               /\ UNCHANGED <<phi, phiGraph>>
          ELSE IF OriginHubs(layers) = {} \/ OppositeHubs(layers) = {}
          THEN /\ err' = "UnboundLocalError"
               /\ pc' = "error"
               /\ UNCHANGED <<phi, phiGraph>>
          ELSE \E s \in HubChoices(OriginHubs(layers)) :
               \E t \in HubChoices(OppositeHubs(layers)) :
                  LET length == Dijkstra({s}, t, shortcuts, layers, 0)
                  IN /\ phiGraph' = [built |-> TRUE, per |-> per,
                                     origins |-> Cardinality(OriginHubs(layers)),
                                     opposites |-> Cardinality(OppositeHubs(layers))]
                     /\ IF length < 0
                        THEN err' = "NetworkXNoPath" /\ pc' = "error" /\ UNCHANGED phi
                        ELSE phi' = length /\ pc' = "done" /\ UNCHANGED err
    /\ trace' = Append(trace, <<"EstimateFailure", cur>>)
    /\ UNCHANGED <<topology, use_blossomv, libPresent, max_cardinality, layers,
                   plaqs, stars, cur, edges, num_nodes, matching, boundary_info,
                   ancillas_matchingind, flipped, weight, solver_calls, walk>>

Next ==
    \/ Toric_match_syndromes
    \/ Planar_match_syndromes
    \/ match_networkx
    \/ match_blossomv
    \/ Toric_correct_matching
    \/ Planar_correct_matching
    \/ calc_phi

Spec == Init /\ [][Next]_vars

\* The planar decoder on a code of one or more layers, general-purpose backend.
InitPhi ==
    /\ topology = "planar"
    /\ use_blossomv = FALSE
    /\ libPresent = FALSE
    /\ max_cardinality \in BOOLEAN
    /\ layers \in 1 .. MaxLayers
    /\ plaqs \in SyndromeLists(topology)
    /\ stars = <<>>
    /\ pc = "match_syndromes"
    /\ cur = "plaq"
    /\ edges = <<>>
    /\ num_nodes = 0
    /\ matching = {}
    /\ boundary_info = <<>>
    /\ ancillas_matchingind = <<>>
    /\ flipped = {}
    /\ weight = 0
    /\ phi = -1
    /\ phiGraph = NoGraph
    /\ err = ""
    /\ solver_calls = 0
    /\ trace = <<>>
    /\ walk = NoWalk

NextPhi ==
    \/ Planar_match_syndromes
    \/ match_networkx
    \/ Planar_correct_matching
    \/ calc_phi

SpecPhi == InitPhi /\ [][NextPhi]_vars

\* ------------------------------------------------- the walker used directly
\* Sites the walker can be handed: any ancilla or pseudo-qubit of any layer.
WalkerSites(top) == {<<l[1], l[2], z>> : l \in Locs(top), z \in 0 .. MaxLayers - 1}

InitialFlips(top) == {{}, {EdgeId(top, <<1, 0>>, <<1, 0>>)}}

InitWalk ==
    /\ topology \in {"toric", "planar"}
    /\ use_blossomv = FALSE
    /\ libPresent = FALSE
    /\ max_cardinality = TRUE
    /\ layers = 1
    /\ plaqs = <<>>
    /\ stars = <<>>
    /\ pc = "walker"
    /\ cur = "plaq"
    /\ edges = <<>>
    /\ num_nodes = 0
    /\ matching = {}
    /\ boundary_info = <<>>
    /\ ancillas_matchingind = <<>>
    /\ flipped \in InitialFlips(topology)
    /\ weight = 0
    /\ phi = -1
    /\ phiGraph = NoGraph
    /\ err = ""
    /\ solver_calls = 0
    /\ trace = <<>>
    /\ walk = [phase |-> "idle"]

WalkerFrame ==
    UNCHANGED <<topology, use_blossomv, libPresent, max_cardinality, layers,
                plaqs, stars, pc, cur, edges, num_nodes, matching,
                boundary_info, ancillas_matchingind, weight, phi, phiGraph,
                err, solver_calls, trace>>

\* _walk_and_correct(site, L, key)
WalkAndCorrect ==
    /\ pc = "walker"
    /\ walk.phase = "idle"
    /\ \E site \in Locs(topology) : \E L \in 0 .. MaxLen : \E key \in Keys :
          LET r == _walk_and_correct(topology, flipped, site, L, key)
          IN /\ flipped' = r.flipped
             /\ walk' = [phase |-> "walked", site |-> site, L |-> L, key |-> key,
                         before |-> flipped, ret |-> r.qubit, taken |-> r.taken]
    /\ WalkerFrame

\* _walk_and_correct from the site the first walk returned, same L, negated key
WalkAndCorrectBack ==
    /\ pc = "walker"
    /\ walk.phase = "walked"
    /\ LET r == _walk_and_correct(topology, flipped, walk.ret, walk.L, NegKey(walk.key))
       IN /\ flipped' = r.flipped
          /\ walk' = [walk EXCEPT !.phase = "returned"]
    /\ WalkerFrame

\* _correct_matched_qubits(aq0, aq1)
CorrectMatchedQubits ==
    /\ pc = "walker"
    /\ walk.phase = "idle"
    /\ \E aq0 \in WalkerSites(topology) : \E aq1 \in WalkerSites(topology) :
          LET r == _correct_matched_qubits(topology, flipped, aq0, aq1)
          IN /\ flipped' = r.flipped
             /\ walk' = [phase |-> "paired", aq0 |-> aq0, aq1 |-> aq1,
                         before |-> flipped, weight |-> r.weight,
                         xtaken |-> r.xtaken, ytaken |-> r.ytaken,
                         xend |-> r.xend, yend |-> r.yend]
    /\ WalkerFrame

\* _walk_direction(q0, q1, size)
WalkDirection ==
    /\ pc = "walker"
    /\ walk.phase = "idle"
    /\ \E q0 \in WalkerSites(topology) : \E q1 \in WalkerSites(topology) :
          LET d == _walk_direction(topology, q0, q1)
          IN walk' = [phase |-> "directed", q0 |-> q0, q1 |-> q1,
                      dx |-> d.dx, dy |-> d.dy, xd |-> d.xd, yd |-> d.yd]
    /\ flipped' = flipped
    /\ WalkerFrame

NextWalk ==
    \/ WalkDirection
    \/ WalkAndCorrect
    \/ WalkAndCorrectBack
    \/ CorrectMatchedQubits

SpecWalk == InitWalk /\ [][NextWalk]_vars

\* ==================================================================== claims
SynOf(type) == IF type = "plaq" THEN plaqs ELSE stars

Types == {"plaq", "star"}

\* positions of a step in the trace of the pass
At(step, type) == {i \in DOMAIN trace : trace[i] = <<step, type>>}

Ran(step) == {i \in DOMAIN trace : trace[i][1] = step}

\* C1: a pass that reaches Done has run BuildGraph, then Match, then Correct
\* for the plaquette and for the star syndromes, and the planar
\* EstimateFailure runs only after Correct has run for both types.
C1_PassRunsBothTypes ==
    /\ pc = "done" =>
          \A type \in Types :
             \E i \in At("BuildGraph", type) : \E j \in At("Match", type) :
                \E k \in At("Correct", type) : i < j /\ j < k
    /\ \A m \in Ran("EstimateFailure") :
          \A type \in Types : \E k \in At("Correct", type) : k < m

\* C2: the node count handed to the backend is 2n for the planar decoder and
\* n for the toric one, and every node index of the edge list is below it.
C2_NodeCountCoversEdges ==
    pc = "matching_graph" =>
       /\ num_nodes = (IF topology = "planar" THEN 2 * Len(Syn) ELSE Len(Syn))
       /\ \A v \in NodesOf(edges) : v < num_nodes

\* C3: for an empty syndrome list the edge list is empty and match_syndromes
\* returns the empty matching without any matching solver being invoked.
C3_EmptyListNoSolver ==
    [][(pc = "matching_graph" /\ Len(Syn) = 0) =>
          /\ edges = <<>>
          /\ matching' = {}
          /\ pc' = "correct_matching"
          /\ solver_calls' = solver_calls]_vars

\* C4 as stated: with use_blossomv and the library absent no pass completes
\* and no matching is ever returned; every pass ends in the missing-library
\* error.
C4_EveryPassEndsMissingLibrary ==
    (use_blossomv /\ ~libPresent) =>
       /\ pc # "done"
       /\ Ran("Match") = {}
       /\ pc = "error" => err = "FileNotFoundError"

\* C4 amended: with use_blossomv and the library absent, a non-empty syndrome
\* list that reaches match_syndromes ends the pass with the missing-library
\* error before a matching is returned and before the solver is called; a
\* matching is returned only for an empty list, and it is empty.
C4_MissingLibraryOnNonEmptyList ==
    (use_blossomv /\ ~libPresent) =>
       /\ solver_calls = 0
       /\ \A i \in DOMAIN trace :
             /\ trace[i][1] = "Match" => SynOf(trace[i][2]) = <<>>
             /\ trace[i][1] = "MatchFailed" =>
                   /\ Len(SynOf(trace[i][2])) > 0
                   /\ i = Len(trace)
                   /\ pc = "error"
                   /\ err = "FileNotFoundError"
             /\ (trace[i][1] = "BuildGraph" /\ Len(SynOf(trace[i][2])) > 0) =>
                   \/ i = Len(trace) /\ pc = "matching_graph"
                   \/ i + 1 = Len(trace) /\ trace[i + 1] = <<"MatchFailed", trace[i][2]>>
       /\ pc = "correct_matching" => matching = {}

\* C4 witness: the plaquette list was empty and matched without the library,
\* the star list was not and ended the pass with the missing-library error.
C4_Witness ==
    /\ use_blossomv /\ ~libPresent
    /\ pc = "error" /\ err = "FileNotFoundError"
    /\ cur = "star" /\ Len(stars) > 0
    /\ At("Match", "plaq") # {}

\* C5: a pass that Match ended by failing leaves every lattice edge's
\* correction state at its value at the start of the pass (no edge toggled).
C5_FailedMatchLeavesNoCorrection ==
    (pc = "error" /\ Ran("MatchFailed") # {}) => flipped = {}

\* C6: the weight _correct_matched_qubits returns is the number of x-steps
\* taken plus the number of y-steps taken plus |layer difference|; steps a
\* walk planned but did not take are not counted.
C6_WeightCountsStepsTaken ==
    walk.phase = "paired" =>
       walk.weight = walk.xtaken + walk.ytaken + Abs(zOf(walk.aq0) - zOf(walk.aq1))

\* C7: for n planar syndromes the edge list holds exactly one edge per pair
\* of real indices i < j < n, exactly the edge (i, n+i) per real site, one
\* weight-0 edge per pair of boundary indices in n..2n-1, no pair twice,
\* n(n-1)/2 + n + n(n-1)/2 edges in all, every weight a natural number.
C7_PlanarEdgeList ==
    (topology = "planar" /\ Ran("BuildGraph") # {}) =>
       LET n == Len(Syn)
           E == EdgeSet(edges)
       IN /\ Len(edges) = (n * (n - 1)) \div 2 + n + (n * (n - 1)) \div 2
          /\ \A k \in DOMAIN edges : \A l \in DOMAIN edges :
                k # l => {edges[k][1], edges[k][2]} # {edges[l][1], edges[l][2]}
          /\ {<<e[1], e[2]>> : e \in {f \in E : f[1] < n /\ f[2] < n}}
                = {p \in (0 .. n - 1) \X (0 .. n - 1) : p[1] < p[2]}
          /\ {<<e[1], e[2]>> : e \in {f \in E : f[1] < n /\ f[2] >= n}}
                = {<<i, n + i>> : i \in 0 .. n - 1}
          /\ {f \in E : f[1] >= n}
                = {<<p[1], p[2], 0>> : p \in {q \in (n .. 2 * n - 1) \X (n .. 2 * n - 1) : q[1] < q[2]}}
          /\ \A e \in E : e[3] \in Nat

\* C7 witness: the graph of the largest planar syndrome list has been built.
C7_Witness ==
    /\ topology = "planar"
    /\ pc = "matching_graph"
    /\ Len(Syn) = MaxSyn
    /\ Len(edges) = MaxSyn * MaxSyn

\* C8 as stated: after _walk_and_correct(site, L, key) and the walk back from
\* the site it returned, with the same L and the negated key, every lattice
\* edge has the correction state it had before the first walk.
C8_RoundTripRestores ==
    walk.phase = "returned" => flipped = walk.before

\* C8 amended: the round trip restores every edge whenever the first walk
\* took all its L steps, which it always does on the toric lattice.
C8_RoundTripRestoresUntruncated ==
    /\ (walk.phase = "returned" /\ walk.taken = walk.L) => flipped = walk.before
    /\ (walk.phase \in {"walked", "returned"} /\ topology = "toric") => walk.taken = walk.L

\* C8 witness: a planar walk of several steps that was not cut short, undone.
C8_Witness ==
    /\ walk.phase = "returned"
    /\ topology = "planar"
    /\ walk.L >= 2
    /\ walk.taken = walk.L
    /\ walk.ret # walk.site

\* C9: calc_phi fails with an error and returns no path length whenever more
\* than one boundary node qualifies as the origin hub or as the opposite hub.
C9_AmbiguousHubFails ==
    (Ran("EstimateFailure") # {}
        /\ (Cardinality(OriginHubs(layers)) > 1 \/ Cardinality(OppositeHubs(layers)) > 1))
    => (pc = "error" /\ err # "" /\ phi = -1)

Tag(i) == boundary_info[i + 1]

SiteOf(i) == ancillas_matchingind[i + 1]

C11_TieTakesFirstDirection ==
    (walk.phase = "directed" /\ topology = "toric") =>
       /\ 2 * walk.dx <= SizeX
       /\ (walk.q1[1] + walk.dx * walk.xd[1]) % SizeX = walk.q0[1]
       /\ (2 * walk.dx = SizeX \/ walk.dx = 0) => walk.xd = <<1, 0>>
       /\ 2 * walk.dy <= SizeY
       /\ (walk.q0[2] + walk.dy * walk.yd[2]) % SizeY = walk.q1[2]
       /\ (2 * walk.dy = SizeY \/ walk.dy = 0) => walk.yd = <<0, -1>>

\* C11 amended: on each axis the returned distance is the smaller wrapped
\* distance and the returned direction carries q1 to q0's column (x) and q0
\* to q1's row (y) in that many steps; on a tie (distance 0 or half the
\* period) the direction is the one paired with the second compared distance
\* (q1-q0) mod P: (-0.5, 0) on x, (0, 0.5) on y.
C11_TieTakesSecondDirection ==
    (walk.phase = "directed" /\ topology = "toric") =>
       /\ walk.dx \in Nat /\ 2 * walk.dx <= SizeX
       /\ walk.xd \in {<<1, 0>>, <<-1, 0>>}
       /\ (walk.q1[1] + walk.dx * walk.xd[1]) % SizeX = walk.q0[1]
       /\ (2 * walk.dx = SizeX \/ walk.dx = 0) => walk.xd = <<-1, 0>>
       /\ walk.dy \in Nat /\ 2 * walk.dy <= SizeY
       /\ walk.yd \in {<<0, 1>>, <<0, -1>>}
       /\ (walk.q0[2] + walk.dy * walk.yd[2]) % SizeY = walk.q1[2]
       /\ (2 * walk.dy = SizeY \/ walk.dy = 0) => walk.yd = <<0, 1>>

\* C11 witness: a toric pair in different columns that is half a period
\* apart on one axis, so that a tie at a distance above 0 was decided.
C11_Witness ==
    /\ walk.phase = "directed"
    /\ topology = "toric"
    /\ walk.dx + walk.dy > 0
    /\ (2 * walk.dx = SizeX \/ 2 * walk.dy = SizeY)
    /\ walk.q0[1] # walk.q1[1]

\* the two sites a lattice edge joins
EdgeEnds(top, e) ==
    LET wrap(v, P) == IF top = "toric" THEN v % P ELSE v
    IN IF e[1] % 2 = 1
       THEN {<<(e[1] - 1) \div 2, e[2] \div 2>>, <<wrap((e[1] + 1) \div 2, SizeX), e[2] \div 2>>}
       ELSE {<<e[1] \div 2, (e[2] - 1) \div 2>>, <<e[1] \div 2, wrap((e[2] + 1) \div 2, SizeY)>>}

\* edges whose correction state the walker call changed
Toggled == (flipped \ walk.before) \cup (walk.before \ flipped)

\* sites joined to a site of S by edges of D
RECURSIVE Joined(_, _, _)
Joined(top, D, S) ==
    LET T == S \cup UNION {EdgeEnds(top, e) : e \in {f \in D : EdgeEnds(top, f) \cap S # {}}}
    IN IF T = S THEN S ELSE Joined(top, D, T)

\* C12: on a toric lattice, and on a planar one when neither walk stops
\* early, the y-walk from the first site and the x-walk from the second end at
\* the same site, and the toggled edges are dx+dy edges that form one
\* connected path joining the two matched sites.
C12_WalksMeet ==
    (/\ walk.phase = "paired"
     /\ \/ topology = "toric"
        \/ walk.xtaken + walk.ytaken = walk.weight - Abs(zOf(walk.aq0) - zOf(walk.aq1)))
    => LET J == Joined(topology, Toggled, {loc(walk.aq0)})
       IN /\ walk.xend = walk.yend
          /\ walk.xend = <<walk.aq0[1], walk.aq1[2]>>
          /\ Cardinality(Toggled) = walk.weight - Abs(zOf(walk.aq0) - zOf(walk.aq1))
          /\ loc(walk.aq1) \in J
          /\ \A e \in Toggled : EdgeEnds(topology, e) \subseteq J

\* C12 witness: a planar pair apart on both axes whose two walks both ran to
\* their end and met.
C12_Witness ==
    /\ walk.phase = "paired"
    /\ topology = "planar"
    /\ walk.xtaken >= 1 /\ walk.ytaken >= 1
    /\ walk.xtaken + walk.ytaken = walk.weight - Abs(zOf(walk.aq0) - zOf(walk.aq1))
    /\ walk.xend = walk.yend

====
